---- MODULE Spec2Model ----
(***************************************************************************)
(* Heap storage engine of 5300-Dolphin: SlottedPage (a 4096-byte slotted   *)
(* page), HeapFile (a sequence of pages on a record-numbered device) and   *)
(* HeapTable (typed rows addressed by (block id, record id) handles).      *)
(* The model follows the first revision in src/heap_storage.cpp            *)
(* (lines 1-580).  A block is a sequence of BLOCK_SZ bytes; the byte at    *)
(* offset o is element o+1.  Integers keep the widths of the code: u16     *)
(* values are reduced modulo 2^16, int32 values are encoded in four        *)
(* little-endian two's-complement bytes.                                   *)
(***************************************************************************)
EXTENDS Integers, Sequences, FiniteSets, TLC

VARIABLES codec,      \* marshal/unmarshal harness: one row through both
          page,       \* the SlottedPage under test (block, num_records, end_free)
          page_prev,  \* the page as it was before the last page operation
          page_op,    \* the last page operation, its arguments and outcome
          nops,       \* number of page operations applied so far
          device,     \* the Berkeley DB record file behind the HeapFile
          file,       \* the HeapFile object: last, closed
          tbl         \* history of the HeapTable calls: expected rows, last call

codec_vars == <<codec>>
page_vars == <<page, page_prev, page_op, nops>>
table_vars == <<device, file, tbl>>
vars == <<codec, page, page_prev, page_op, nops, device, file, tbl>>

-----------------------------------------------------------------------------
(* Program constants *)

BLOCK_SZ == 4096
U16_MOD == 65536
\* sizeof(Dbt) on the LP64 build the Makefile targets: DBT is
\* {void*; u32 x4; void*; u32} = 36 bytes, padded to 40.
SIZEOF_DBT == 40

(* Bounds of the model *)

MaxTextLen == 1      \* short TEXT values are all strings up to this length
LongTextLen == 300   \* one TEXT value whose length needs both length bytes
MaxOps == 5          \* page operations per behaviour
MaxTableOps == 3     \* HeapTable calls per behaviour, after create; constructions not counted
ClobberLen == 8      \* bytes of a dead stack buffer that later calls overwrite
HalfPageLen == 2040  \* a record length of which two, but not three, fit in a page
BigTextLen == 4044   \* a TEXT value whose row fills a page together with a short row

-----------------------------------------------------------------------------
(* Bytes and fixed-width integers *)

Null == [null |-> TRUE]

U16(x) == x % U16_MOD

Min(a, b) == IF a < b THEN a ELSE b
Max(a, b) == IF a > b THEN a ELSE b

Fill(n, b) == [i \in 1..n |-> b]

\* *(int32_t*)(bytes + offset) = value.n : four little-endian bytes of the
\* two's-complement representation.
I32ToBytes(n) ==
    LET r == IF n < 0 THEN (n + 2147483647) + 1 ELSE n   \* low 31 bits
        top == IF n < 0 THEN 128 ELSE 0
    IN  << r % 256, (r \div 256) % 256, (r \div 65536) % 256,
           ((r \div 16777216) % 128) + top >>

\* Value(*(u32*)(bytes + offset)) : the u32 read is converted to the int32_t
\* parameter of Value's constructor (modulo 2^32).
BytesToI32(b) ==
    LET low == b[1] + 256 * b[2] + 65536 * b[3] + 16777216 * (b[4] % 128)
    IN  IF b[4] >= 128 THEN (low - 2147483647) - 1 ELSE low

U16ToBytes(n) == << U16(n) % 256, U16(n) \div 256 >>
BytesToU16(b) == b[1] + 256 * b[2]

-----------------------------------------------------------------------------
(* Values, rows and schemas (storage_engine.h) *)

IntValue(n) == [data_type |-> "INT", n |-> n, s |-> <<>>]
TextValue(s) == [data_type |-> "TEXT", n |-> 0, s |-> s]

EmptyRow == [c \in {} |-> Null]

Col(name, type) == [name |-> name, type |-> type]

\* (*row)[name] = value on a std::map
RowSet(row, name, value) == (name :> value) @@ row

\* A validate that gives a missing column a zero or empty value
validate_with_defaults(schema, row) ==
    [err |-> "ok",
     row |-> [c \in {schema[i].name : i \in 1..Len(schema)} |->
                IF c \in DOMAIN row THEN row[c]
                ELSE LET i == CHOOSE k \in 1..Len(schema) : schema[k].name = c
                     IN  IF schema[i].type = "INT" THEN IntValue(0)
                         ELSE TextValue(<<>>)]]

\* HeapTable::validate: the schema's columns of row, or "missing column name"
validate(schema, row) ==
    IF \A i \in 1..Len(schema) : schema[i].name \in DOMAIN row
    THEN [err |-> "ok",
          row |-> [c \in {schema[i].name : i \in 1..Len(schema)} |-> row[c]]]
    ELSE [err |-> "DbRelationError", row |-> EmptyRow]

marshal_column(ca, value) ==
    IF ca = "INT" THEN I32ToBytes(value.n)
    ELSE U16ToBytes(Len(value.s)) \o value.s

\* A marshal that writes only the low byte of a TEXT length.
marshal_byte_len(schema, row) ==
    LET RECURSIVE go(_, _)
        go(i, bytes) ==
            IF i > Len(schema) THEN bytes
            ELSE LET v == row[schema[i].name]
                 IN  go(i + 1, bytes \o
                        (IF schema[i].type = "INT" THEN I32ToBytes(v.n)
                         ELSE << Len(v.s) % 256, 0 >> \o v.s))
    IN  go(1, <<>>)

\* HeapTable::marshal: the columns in schema order, INT as 4 bytes, TEXT as a
\* u16 length followed by the characters.
marshal(schema, row) ==
    LET RECURSIVE go(_, _)
        go(i, bytes) ==
            IF i > Len(schema) THEN bytes
            ELSE go(i + 1, bytes \o marshal_column(schema[i].type, row[schema[i].name]))
    IN  go(1, <<>>)

\* Bytes [offset, offset+n) of a record buffer; what lies past the end of the
\* buffer is whatever the memory holds there (g).
ReadData(data, offset, n, g) ==
    LET have == Max(0, Min(n, Len(data) - offset))
    IN  SubSeq(data, offset + 1, offset + have) \o Fill(n - have, g)

\* HeapTable::unmarshal: reads the columns in schema order, taking TEXT
\* lengths from the stream.
unmarshal(schema, data, g) ==
    LET RECURSIVE go(_, _, _)
        go(i, offset, row) ==
            IF i > Len(schema) THEN row
            ELSE IF schema[i].type = "INT"
                 THEN go(i + 1, offset + 4,
                         RowSet(row, schema[i].name,
                                IntValue(BytesToI32(ReadData(data, offset, 4, g)))))
                 ELSE LET size == BytesToU16(ReadData(data, offset, 2, g))
                      IN  go(i + 1, offset + 2 + size,
                             RowSet(row, schema[i].name,
                                    TextValue(ReadData(data, offset + 2, size, g))))
    IN  go(1, 0, EmptyRow)

-----------------------------------------------------------------------------
(* SlottedPage (heap_storage.cpp 18-193) *)

\* memcpy/memmove source: n bytes of buf from offset; bytes past the end of
\* the buffer hold whatever the memory holds there (g).
ReadBytes(buf, offset, n, g) == ReadData(buf, offset, n, g)

\* memcpy/memmove destination inside a block buffer.  Bytes that would land
\* past the end of the buffer are not part of the block.
WriteBytes(block, dst, bytes) ==
    IF dst >= Len(block) \/ Len(bytes) = 0 THEN block
    ELSE LET fit == Min(Len(bytes), Len(block) - dst)
         IN  SubSeq(block, 1, dst) \o SubSeq(bytes, 1, fit)
               \o SubSeq(block, dst + fit + 1, Len(block))

\* TRUE iff the n bytes at offset lie inside the block buffer
InBlock(offset, n) == n = 0 \/ (offset >= 0 /\ offset + n <= BLOCK_SZ)

\* u16 SlottedPage::get_n(u16 offset)
get_n(p, offset) == BytesToU16(ReadBytes(p.block, U16(offset), 2, 0))

\* void SlottedPage::put_n(u16 offset, u16 n)
put_n(p, offset, n) ==
    [p EXCEPT !.block = WriteBytes(p.block, U16(offset), U16ToBytes(n)),
              !.oob = p.oob \/ ~InBlock(U16(offset), 2)]

\* void SlottedPage::get_header(u16& size, u16& loc, RecordID id)
get_header(p, id) == [size |-> get_n(p, 4 * id), loc |-> get_n(p, 4 * id + 2)]

\* void SlottedPage::put_header(RecordID id, u16 size, u16 loc)
put_header(p, id, size, loc) ==
    LET sz == IF id = 0 THEN p.num_records ELSE size
        lc == IF id = 0 THEN p.end_free ELSE loc
    IN  put_n(put_n(p, 4 * id, sz), 4 * id + 2, lc)

\* A new page whose header is not written to the block
NewPage_without_header ==
    [block |-> Fill(BLOCK_SZ, 0), num_records |-> 0,
     end_free |-> BLOCK_SZ - 1, oob |-> FALSE]

\* SlottedPage::SlottedPage(block, block_id, is_new = true) over a zeroed buffer
NewPage ==
    put_header([block |-> Fill(BLOCK_SZ, 0), num_records |-> 0,
                end_free |-> BLOCK_SZ - 1, oob |-> FALSE], 0, 0, 0)

\* SlottedPage::SlottedPage(block, block_id, is_new = false): get_header()
LoadPage(block) ==
    LET raw == [block |-> block, num_records |-> 0, end_free |-> 0, oob |-> FALSE]
        h == get_header(raw, 0)
    IN  [raw EXCEPT !.num_records = h.size, !.end_free = h.loc]

\* A has_room that leaves the slot headers out of the count
has_room_without_headers(p, size) == size <= p.end_free

\* bool SlottedPage::has_room(u16 size)
has_room(p, size) ==
    LET available == U16(p.end_free - (p.num_records + 1) * 4)
    IN  size + 4 <= available

\* An ids() whose loop starts at the page-header slot
ids_from_zero(p) ==
    SelectSeq([i \in 1..(p.num_records + 1) |-> i - 1],
              LAMBDA id : get_header(p, id).loc # 0)

\* RecordIDs* SlottedPage::ids(): ids 1..num_records with a nonzero loc
ids(p) ==
    SelectSeq([i \in 1..p.num_records |-> i],
              LAMBDA id : get_header(p, id).loc # 0)

\* Dbt* SlottedPage::get(RecordID): nullptr for a tombstone, otherwise size
\* bytes at loc
SlottedPage_get(p, id) ==
    LET h == get_header(p, id)
    IN  IF h.loc = 0 THEN Null ELSE ReadBytes(p.block, h.loc, h.size, 0)

\* An add that counts the record before it checks for room.
add_count_first(p, data) ==
    LET size == U16(Len(data)) IN
    IF ~has_room(p, size)
    THEN [err |-> "DbBlockNoRoomError", id |-> 0,
          page |-> put_header([p EXCEPT !.num_records = U16(p.num_records + 1)], 0, 0, 0)]
    ELSE LET id == U16(p.num_records + 1)
             end_free == U16(p.end_free - size)
             loc == U16(end_free + 1)
             p1 == [p EXCEPT !.num_records = id, !.end_free = end_free]
             p3 == put_header(put_header(p1, 0, 0, 0), id, size, loc)
         IN  [err |-> "ok", id |-> id,
              page |-> [p3 EXCEPT !.block = WriteBytes(p3.block, loc, ReadBytes(data, 0, size, 0))]]

\* RecordID SlottedPage::add(const Dbt* data)
SlottedPage_add(p, data) ==
    LET size == U16(Len(data)) IN
    IF ~has_room(p, size)
    THEN [err |-> "DbBlockNoRoomError", id |-> 0, page |-> p]
    ELSE LET id == U16(p.num_records + 1)
             end_free == U16(p.end_free - size)
             loc == U16(end_free + 1)
             p1 == [p EXCEPT !.num_records = id, !.end_free = end_free]
             p2 == put_header(p1, 0, 0, 0)
             p3 == put_header(p2, id, size, loc)
         IN  [err |-> "ok", id |-> id,
              page |-> [p3 EXCEPT !.block = WriteBytes(p3.block, loc, ReadBytes(data, 0, size, 0)),
                                  !.oob = p3.oob \/ ~InBlock(loc, size)]]

\* A header fix-up that runs over every slot, tombstones included
fixup_every_slot(p, start, shift) ==
    LET RECURSIVE go(_, _)
        go(id, q) ==
            IF id > p.num_records THEN q
            ELSE LET h == get_header(q, id)
                 IN  IF h.loc <= start
                     THEN go(id + 1, put_header(q, id, h.size, U16(h.loc + shift)))
                     ELSE go(id + 1, q)
    IN  go(1, p)

\* The header fix-up loop of slide: every live record at or below start moves
\* by shift.
fixup_headers(p, start, shift) ==
    LET record_ids == ids(p)
        RECURSIVE go(_, _)
        go(k, q) ==
            IF k > Len(record_ids) THEN q
            ELSE LET h == get_header(q, record_ids[k])
                 IN  IF h.loc <= start
                     THEN go(k + 1, put_header(q, record_ids[k], h.size, U16(h.loc + shift)))
                     ELSE go(k + 1, q)
    IN  go(1, p)

\* void SlottedPage::slide(u16 start, u16 end)
slide(p, start, end, g) ==
    LET shift == U16(end - start) IN
    IF shift = 0 THEN p
    ELSE LET old_loc == U16(p.end_free + 1)
             new_loc == U16(p.end_free + shift + 1)
             bytes == U16(start - (p.end_free + 1))
             moved == [p EXCEPT
                         !.block = WriteBytes(p.block, new_loc,
                                              ReadBytes(p.block, old_loc, bytes, g)),
                         !.oob = p.oob \/ ~InBlock(old_loc, bytes) \/ ~InBlock(new_loc, bytes)]
             fixed == fixup_headers(moved, start, shift)
         IN  put_header([fixed EXCEPT !.end_free = U16(p.end_free + shift)], 0, 0, 0)

\* void SlottedPage::put(RecordID record_id, const Dbt& data).  new_size is
\* sizeof(data), the size of the Dbt object, whatever the record's length;
\* memcpy then copies new_size bytes from data.get_data(), running past the
\* end of a shorter record buffer.
SlottedPage_put(p, record_id, data, g) ==
    LET h == get_header(p, record_id)
        size == h.size
        loc == h.loc
        new_size == SIZEOF_DBT
        src == ReadBytes(data, 0, new_size, g)
    IN  IF new_size > size
        THEN LET extra == U16(new_size - size) IN
             IF ~has_room(p, extra)
             THEN [err |-> "DbBlockNoRoomError", page |-> p]
             ELSE LET p1 == slide(p, U16(loc + new_size), U16(loc + size), g)
                      p2 == [p1 EXCEPT !.block = WriteBytes(p1.block, U16(loc - extra), src),
                                       !.oob = p1.oob \/ ~InBlock(U16(loc - extra), new_size)]
                      h2 == get_header(p2, record_id)
                  IN  [err |-> "ok", page |-> put_header(p2, record_id, new_size, h2.loc)]
        ELSE LET p1 == [p EXCEPT !.block = WriteBytes(p.block, loc, src),
                                 !.oob = p.oob \/ ~InBlock(loc, new_size)]
                 p2 == slide(p1, U16(loc + new_size), U16(loc + size), g)
                 h2 == get_header(p2, record_id)
             IN  [err |-> "ok", page |-> put_header(p2, record_id, new_size, h2.loc)]

\* A del that reclaims the space but leaves the slot header in place.
del_keep_header(p, record_id, g) ==
    LET h == get_header(p, record_id)
    IN  slide(p, h.loc, U16(h.loc + h.size), g)

\* void SlottedPage::del(RecordID record_id)
SlottedPage_del(p, record_id, g) ==
    LET h == get_header(p, record_id)
        p1 == put_header(p, record_id, 0, 0)
    IN  slide(p1, h.loc, U16(h.loc + h.size), g)

-----------------------------------------------------------------------------
(* HeapFile (heap_storage.cpp 195-294) over a Berkeley DB RECNO file *)

\* The file on disk: whether it exists, and its fixed-length records 1..n
NoDevice == [exists |-> FALSE, blocks |-> <<>>]

\* HeapFile::HeapFile: last(0), closed(true)
NewFile == [last |-> 0, closed |-> TRUE]

\* db.put(nullptr, &key, &data, 0) on record number key
DbPut(dev, key, block) ==
    [dev EXCEPT !.blocks = IF key <= Len(@) THEN [@ EXCEPT ![key] = block]
                           ELSE Append(@, block)]

\* A db_open that gets the failure of Db::open as a status: it closes and
\* returns normally.
db_open_by_status(f, dev, flags) ==
    IF ~f.closed THEN [err |-> "ok", file |-> f, device |-> dev, calls |-> <<>>]
    ELSE IF dev.exists \/ flags = "DB_CREATE"
         THEN [err |-> "ok", file |-> [f EXCEPT !.closed = FALSE],
               device |-> [dev EXCEPT !.exists = TRUE], calls |-> <<"Db::open">>]
         ELSE [err |-> "ok", file |-> [f EXCEPT !.closed = TRUE], device |-> dev,
               calls |-> <<"Db::open", "Db::close">>]

\* void HeapFile::db_open(uint flags).  Db::open creates the file only with
\* DB_CREATE; on a missing file it throws DbException (the Db is constructed
\* with flags 0, heap_storage.h:85), so status is never seen nonzero and
\* closed keeps its value.  calls lists the Db methods invoked.
HeapFile_db_open(f, dev, flags) ==
    IF ~f.closed THEN [err |-> "ok", file |-> f, device |-> dev, calls |-> <<>>]
    ELSE IF dev.exists \/ flags = "DB_CREATE"
         THEN [err |-> "ok", file |-> [f EXCEPT !.closed = FALSE],
               device |-> [dev EXCEPT !.exists = TRUE], calls |-> <<"Db::open">>]
         ELSE [err |-> "DbException", file |-> f, device |-> dev,
               calls |-> <<"Db::open">>]

\* void HeapFile::open(void)
HeapFile_open(f, dev) == HeapFile_db_open(f, dev, "0")

\* void HeapFile::close(void): db.close(0) whatever the value of closed
HeapFile_close(f) ==
    [file |-> [f EXCEPT !.closed = TRUE], calls |-> <<"Db::close">>]

\* void HeapFile::drop(void): close, then std::remove of the file; removed
\* tells whether the file system removes it.
HeapFile_drop(f, dev, removed) ==
    LET c == HeapFile_close(f)
    IN  IF removed
        THEN [err |-> "ok", file |-> c.file, device |-> NoDevice]
        ELSE [err |-> "std::logic_error", file |-> c.file, device |-> dev]

\* What a buffer in a returned function's stack frame holds when it is read
\* later: the bytes written to it, or those bytes with the c highest ones
\* overwritten by the frames of the calls made since.
StackFrame(block, c, g) ==
    IF c = 0 THEN block
    ELSE SubSeq(block, 1, Len(block) - c) \o Fill(c, g)

StackOutcomes == {0, ClobberLen}

\* A get_new that leaves one block id out
get_new_skip_one(f, dev) ==
    [file |-> [f EXCEPT !.last = f.last + 2],
     device |-> DbPut(dev, f.last + 2, NewPage.block),
     page |-> NewPage]

\* SlottedPage* HeapFile::get_new(): the page is built over the local array
\* block[]; db.put writes it out, db.get re-reads into the local Dbt data, but
\* the returned page keeps its own copy of the Dbt, which points at block[].
HeapFile_get_new(f, dev) ==
    LET last == f.last + 1
        pg == NewPage
    IN  [file |-> [f EXCEPT !.last = last],
         device |-> DbPut(dev, last, pg.block),
         page |-> pg]

\* SlottedPage* HeapFile::get(BlockID block_id)
HeapFile_get(dev, block_id) == LoadPage(dev.blocks[block_id])

\* A put that writes every block at record number 1
put_at_first_block(dev, block_id, block) == DbPut(dev, 1, block)

\* void HeapFile::put(DbBlock* block)
HeapFile_put(dev, block_id, block) == DbPut(dev, block_id, block)

\* BlockIDs* HeapFile::block_ids()
block_ids(f) == [i \in 1..f.last |-> i]

\* void HeapFile::create(): the put after get_new reads the page's buffer,
\* get_new's dead stack array.
HeapFile_create(f, dev, c, g) ==
    LET o == HeapFile_db_open(f, dev, "DB_CREATE")
        gn == HeapFile_get_new(o.file, o.device)
    IN  [err |-> o.err, file |-> gn.file,
         device |-> HeapFile_put(gn.device, gn.file.last, StackFrame(gn.page.block, c, g))]

-----------------------------------------------------------------------------
(* HeapTable (heap_storage.cpp 296-534) *)

\* The columns of test_heap_storage: a INT, b TEXT
TableSchema == << Col("a", "INT"), Col("b", "TEXT") >>

\* void HeapTable::create()
HeapTable_create(f, dev, c, g) == HeapFile_create(f, dev, c, g)

\* void HeapTable::open()
HeapTable_open(f, dev) == HeapFile_open(f, dev)

\* void HeapTable::close()
HeapTable_close(f) == HeapFile_close(f)

\* void HeapTable::create_if_not_exists(): create, and open only if create
\* throws a DbRelationError
HeapTable_create_if_not_exists(f, dev, c, g) ==
    LET r == HeapTable_create(f, dev, c, g)
    IN  IF r.err = "DbRelationError"
        THEN LET o == HeapTable_open(f, dev)
             IN  [err |-> o.err, file |-> o.file, device |-> o.device]
        ELSE r

\* void HeapTable::drop(): the logic_error of HeapFile::drop is caught and
\* printed
HeapTable_drop(f, dev, removed) ==
    LET r == HeapFile_drop(f, dev, removed)
    IN  [r EXCEPT !.err = "ok"]

\* The bytes unmarshal can reach from a record's Dbt: it points into the
\* block at loc and unmarshal never looks at its size.
RecordView(p, record_id) ==
    LET h == get_header(p, record_id)
    IN  IF h.loc >= Len(p.block) THEN <<>>
        ELSE SubSeq(p.block, h.loc + 1, Len(p.block))

\* ValueDict* HeapTable::project(Handle handle): unmarshal dereferences the
\* nullptr that get returns for a tombstone.
HeapTable_project(dev, handle, g) ==
    LET block == HeapFile_get(dev, handle[1])
        record == SlottedPage_get(block, handle[2])
    IN  IF record = Null THEN [err |-> "null dereference", row |-> EmptyRow]
        ELSE [err |-> "ok",
              row |-> unmarshal(TableSchema, RecordView(block, handle[2]), g)]

\* ValueDict* HeapTable::project(Handle handle, const ColumnNames*
\* column_names) with column_names given (HeapTable_project is the call with
\* nullptr): the loop runs over this->column_names, the columns of the
\* relation.
HeapTable_project_columns(dev, handle, column_names, g) ==
    LET pr == HeapTable_project(dev, handle, g)
    IN  IF pr.err # "ok" THEN pr
        ELSE [err |-> "ok",
              row |-> [c \in {TableSchema[i].name : i \in 1..Len(TableSchema)} |->
                         pr.row[c]]]

\* Handles* HeapTable::select(): every block in block_ids order, its ids()
HeapTable_select(f, dev) ==
    LET bids == block_ids(f)
        RECURSIVE go(_, _)
        go(i, handles) ==
            IF i > Len(bids) THEN handles
            ELSE LET record_ids == ids(HeapFile_get(dev, bids[i]))
                 IN  go(i + 1,
                        handles \o [k \in 1..Len(record_ids) |-> <<bids[i], record_ids[k]>>])
    IN  go(1, <<>>)

\* An append that does not write the new block back after adding to it
append_without_put(f, dev, row, c, g) ==
    LET data == marshal(TableSchema, row)
        block == HeapFile_get(dev, f.last)
        r == SlottedPage_add(block, data)
    IN  IF r.err = "ok"
        THEN [err |-> "ok", file |-> f, handle |-> <<f.last, r.id>>,
              device |-> HeapFile_put(dev, f.last, r.page.block)]
        ELSE LET gn == HeapFile_get_new(f, dev)
                 r2 == SlottedPage_add(gn.page, data)
             IN  [err |-> r2.err, file |-> gn.file,
                  handle |-> <<gn.file.last, r2.id>>, device |-> gn.device]

\* A select that pays no attention to where
select_ignoring_where(f, dev, where) ==
    [err |-> "ok", handles |-> HeapTable_select(f, dev)]

\* Handles* HeapTable::select(const ValueDict* where); where is the pointer:
\* null, or the predicates it points to
HeapTable_select_where(f, dev, where) ==
    IF ~where.null
    THEN [err |-> "DbRelationError", handles |-> <<>>]
    ELSE [err |-> "ok", handles |-> HeapTable_select(f, dev)]

\* An append that puts the row in the first block that has room for it
append_first_fit(f, dev, row, c, g) ==
    LET data == marshal(TableSchema, row)
        fits == { b \in 1..f.last : has_room(HeapFile_get(dev, b), Len(data)) }
    IN  IF fits # {}
        THEN LET b == CHOOSE x \in fits : \A y \in fits : x <= y
                 r == SlottedPage_add(HeapFile_get(dev, b), data)
             IN  [err |-> "ok", file |-> f, handle |-> <<b, r.id>>,
                  device |-> HeapFile_put(dev, b, r.page.block)]
        ELSE LET gn == HeapFile_get_new(f, dev)
                 r2 == SlottedPage_add(gn.page, data)
             IN  [err |-> r2.err, file |-> gn.file,
                  handle |-> <<gn.file.last, r2.id>>,
                  device |-> IF r2.err = "ok"
                             THEN HeapFile_put(gn.device, gn.file.last, r2.page.block)
                             ELSE gn.device]

\* Handle HeapTable::append(const ValueDict* row)
append(f, dev, row, c, g) ==
    LET data == marshal(TableSchema, row)
        block == HeapFile_get(dev, f.last)
        r == SlottedPage_add(block, data)
    IN  IF r.err = "ok"
        THEN [err |-> "ok", file |-> f, handle |-> <<f.last, r.id>>,
              device |-> HeapFile_put(dev, f.last, r.page.block)]
        ELSE LET gn == HeapFile_get_new(f, dev)
                 r2 == SlottedPage_add(gn.page, data)
             IN  IF r2.err # "ok"
                 THEN [err |-> r2.err, file |-> gn.file, handle |-> <<0, 0>>,
                       device |-> gn.device]
                 ELSE [err |-> "ok", file |-> gn.file,
                       handle |-> <<gn.file.last, r2.id>>,
                       device |-> HeapFile_put(gn.device, gn.file.last,
                                               StackFrame(r2.page.block, c, g))]

\* Handle HeapTable::insert(const ValueDict* row)
HeapTable_insert(f, dev, row, c, g) ==
    LET o == HeapFile_db_open(f, dev, "0")
        full_row == validate(TableSchema, row)
    IN  IF o.err # "ok"
        THEN [err |-> o.err, file |-> o.file, device |-> o.device, handle |-> <<0, 0>>]
        ELSE IF full_row.err # "ok"
        THEN [err |-> full_row.err, file |-> o.file, device |-> o.device, handle |-> <<0, 0>>]
        ELSE append(o.file, o.device, full_row.row, c, g)

\* An update that takes the old record out before it puts the new one
update_del_first(dev, handle, new_values, g) ==
    LET block == HeapFile_get(dev, handle[1])
        pr == HeapTable_project(dev, handle, g)
        row == new_values @@ pr.row
        full_row == validate(TableSchema, row)
        r == SlottedPage_put(block, handle[2], marshal(TableSchema, full_row.row), g)
    IN  IF r.err # "ok"
        THEN [err |-> r.err,
              device |-> HeapFile_put(dev, handle[1],
                                      SlottedPage_del(block, handle[2], g).block)]
        ELSE [err |-> "ok", device |-> HeapFile_put(dev, handle[1], r.page.block)]

\* void HeapTable::update(const Handle handle, const ValueDict* new_values)
HeapTable_update(dev, handle, new_values, g) ==
    LET block == HeapFile_get(dev, handle[1])
        pr == HeapTable_project(dev, handle, g)
        row == new_values @@ pr.row
        full_row == validate(TableSchema, row)
    IN  IF pr.err # "ok" THEN [err |-> pr.err, device |-> dev]
        ELSE IF full_row.err # "ok" THEN [err |-> full_row.err, device |-> dev]
        ELSE LET r == SlottedPage_put(block, handle[2], marshal(TableSchema, full_row.row), g)
             IN  IF r.err # "ok" THEN [err |-> r.err, device |-> dev]
                 ELSE [err |-> "ok", device |-> HeapFile_put(dev, handle[1], r.page.block)]

\* A del that does not write the block back
del_without_put(dev, handle, g) == dev

\* void HeapTable::del(const Handle handle)
HeapTable_del(dev, handle, g) ==
    LET block == HeapFile_get(dev, handle[1])
    IN  HeapFile_put(dev, handle[1], SlottedPage_del(block, handle[2], g).block)

-----------------------------------------------------------------------------
(* Inputs of the marshal harness *)

Schemas == { << Col("a", "INT"), Col("b", "TEXT") >>,
             << Col("b", "TEXT"), Col("a", "INT") >>,
             << Col("b", "TEXT"), Col("c", "TEXT") >>,
             << Col("a", "INT") >> }

Ints == { (-2147483647) - 1, -1, 0, 12, 2147483647 }

Chars == { 0, 72 }

Texts == UNION { [1..n -> Chars] : n \in 0..MaxTextLen }
           \cup { [i \in 1..LongTextLen |-> 33 + (i % 90)] }

ValuesOf(type) == IF type = "INT" THEN { IntValue(n) : n \in Ints }
                  ELSE { TextValue(s) : s \in Texts }

\* Rows whose keys are exactly the schema's column names, with matching types
RowsOf(schema) ==
    LET names == { schema[i].name : i \in 1..Len(schema) }
        typeOf(c) == (CHOOSE i \in 1..Len(schema) : schema[i].name = c)
    IN  { r \in [names -> UNION { ValuesOf(t) : t \in {"INT", "TEXT"} }] :
            \A c \in names : r[c].data_type = schema[typeOf(c)].type }

Idle == [idle |-> TRUE]

CodecInit ==
    /\ \E schema \in Schemas : \E row \in RowsOf(schema) :
          codec = [pc |-> "row", schema |-> schema, row |-> row,
                   data |-> <<>>, result |-> EmptyRow]
    /\ page = Idle /\ page_prev = Idle /\ page_op = Idle /\ nops = 0
    /\ device = Idle /\ file = Idle /\ tbl = Idle

CodecMarshal ==
    /\ codec.pc = "row"
    /\ codec' = [codec EXCEPT !.pc = "marshalled",
                              !.data = marshal(codec.schema, codec.row)]
    /\ UNCHANGED <<page_vars, table_vars>>

CodecUnmarshal ==
    /\ codec.pc = "marshalled"
    /\ codec' = [codec EXCEPT !.pc = "unmarshalled",
                              !.result = unmarshal(codec.schema, codec.data, 0)]
    /\ UNCHANGED <<page_vars, table_vars>>

CodecNext == CodecMarshal \/ CodecUnmarshal

SpecCodec == CodecInit /\ [][CodecNext]_vars

\* C1: for every schema of INT and TEXT columns and every row with exactly the
\* schema's columns and matching types, unmarshal(marshal(row)) equals row.
C1_RoundTrip ==
    codec.pc = "unmarshalled" => codec.result = codec.row

\* C1 witness: a row with a negative INT and a TEXT longer than 255 bytes has
\* gone through marshal and unmarshal.
C1_Witness ==
    /\ codec.pc = "unmarshalled"
    /\ \E c \in DOMAIN codec.row : codec.row[c].n < 0
    /\ \E c \in DOMAIN codec.row : Len(codec.row[c].s) > 255
    /\ Len(codec.data) = 4 + 2 + LongTextLen

-----------------------------------------------------------------------------
(* One SlottedPage driven by add, put and del *)

\* Record lengths offered to add and to put: shorter than, equal to and
\* longer than sizeof(Dbt), and one that fills half a page.
AddLens == {2, SIZEOF_DBT, HalfPageLen}
PutLens == {3, SIZEOF_DBT, HalfPageLen + 60}

\* What a read past the end of a buffer, or of a dead stack frame, may find
Garbage == {0, 9}

\* The bytes record contents are cut from
Pattern == [k \in 1..(BLOCK_SZ + 128) |-> (k % 7) + 1]

\* Record contents: position-dependent bytes, different for every tag; byte i
\* is ((tag * 3 + i) % 7) + 1
Data(len, tag) == SubSeq(Pattern, tag * 3 + 1, tag * 3 + len)

Live(p) == { id \in 1..p.num_records : get_header(p, id).loc # 0 }

PageInit ==
    /\ codec = Idle
    /\ page = NewPage
    /\ page_prev = NewPage
    /\ page_op = [name |-> "new", id |-> 0, data |-> <<>>, err |-> "ok", adds |-> 0]
    /\ nops = 0
    /\ device = Idle /\ file = Idle /\ tbl = Idle

\* The longest record a new page takes
MaxRecordLen == BLOCK_SZ - 1 - 4 - 4

\* Lengths offered to add; on a new page also the longest record that fits
\* and the shortest that does not
AddLensOn(p) ==
    IF p.num_records = 0 THEN AddLens \cup {MaxRecordLen, MaxRecordLen + 1}
    ELSE AddLens

PageAdd ==
    /\ nops < MaxOps
    /\ \E len \in AddLensOn(page) :
          LET data == Data(len, page.num_records + 1)
              r == SlottedPage_add([page EXCEPT !.oob = FALSE], data)
          IN  /\ page' = r.page
              /\ page_op' = [name |-> "add", id |-> r.id, data |-> data, err |-> r.err,
                             adds |-> IF r.err = "ok" THEN page_op.adds + 1
                                      ELSE page_op.adds]
    /\ page_prev' = page
    /\ nops' = nops + 1
    /\ UNCHANGED <<codec, table_vars>>

PagePut ==
    /\ nops < MaxOps
    /\ \E id \in Live(page) : \E len \in PutLens : \E g \in Garbage :
          LET data == Data(len, 16 + id)
              r == SlottedPage_put([page EXCEPT !.oob = FALSE], id, data, g)
          IN  /\ page' = r.page
              /\ page_op' = [name |-> "put", id |-> id, data |-> data, err |-> r.err,
                             adds |-> page_op.adds]
    /\ page_prev' = page
    /\ nops' = nops + 1
    /\ UNCHANGED <<codec, table_vars>>

PageDel ==
    /\ nops < MaxOps
    /\ \E id \in 1..page.num_records : \E g \in Garbage :
          /\ page' = SlottedPage_del([page EXCEPT !.oob = FALSE], id, g)
          /\ page_op' = [name |-> "del", id |-> id, data |-> <<>>, err |-> "ok",
                         adds |-> page_op.adds]
    /\ page_prev' = page
    /\ nops' = nops + 1
    /\ UNCHANGED <<codec, table_vars>>

PageNext == PageAdd \/ PagePut \/ PageDel

SpecPage == PageInit /\ [][PageNext]_vars

\* The records other than id that were live before the last operation
Siblings(id) == Live(page_prev) \ {id}

SiblingsUnchanged(id) ==
    \A r \in Siblings(id) : SlottedPage_get(page, r) = SlottedPage_get(page_prev, r)

SamePage(p, q) ==
    /\ p.num_records = q.num_records
    /\ p.end_free = q.end_free
    /\ p.block = q.block

OldSize(id) == get_header(page_prev, id).size

\* C3: when add(data) succeeds and returns id, get(id) returns data and get()
\* of every record that was live before the add is unchanged.
C3_AddThenGet ==
    (page_op.name = "add" /\ page_op.err = "ok")
        => /\ SlottedPage_get(page, page_op.id) = page_op.data
           /\ SiblingsUnchanged(page_op.id)

\* C4: after a successful put(id, data) on a live record, get(id) returns
\* exactly data, whatever the length of data.
C4_PutThenGet ==
    (page_op.name = "put" /\ page_op.err = "ok")
        => SlottedPage_get(page, page_op.id) = page_op.data

\* C5: after a successful put(id, data) that grows the record, get() of every
\* other live record returns the same bytes as before.
C5_GrowKeepsSiblings ==
    (page_op.name = "put" /\ page_op.err = "ok"
        /\ Len(page_op.data) > OldSize(page_op.id))
        => SiblingsUnchanged(page_op.id)

\* C6: del(id) of a live record leaves get() of every other live record
\* byte-identical, and ids() is the previous list with only id removed.
C6_DelKeepsSiblings ==
    (page_op.name = "del" /\ page_op.id \in Live(page_prev))
        => /\ SiblingsUnchanged(page_op.id)
           /\ ids(page) = SelectSeq(ids(page_prev), LAMBDA r : r # page_op.id)

C8_AddNoRoom ==
    (page_op.name = "add" /\ ~has_room(page_prev, Len(page_op.data)))
        => /\ page_op.err = "DbBlockNoRoomError"
           /\ SamePage(page, page_prev)

\* C8 witness: an add was refused on a page that holds two records.
C8_Witness ==
    /\ page_op.name = "add"
    /\ page_op.err = "DbBlockNoRoomError"
    /\ ~has_room(page_prev, Len(page_op.data))
    /\ Cardinality(Live(page_prev)) >= 2

\* C9: when put(id, data) would grow the record by extra bytes and
\* has_room(extra) is false, put raises NoRoomError and the page is unchanged.
C9_PutNoRoom ==
    (page_op.name = "put"
        /\ Len(page_op.data) > OldSize(page_op.id)
        /\ ~has_room(page_prev, Len(page_op.data) - OldSize(page_op.id)))
        => /\ page_op.err = "DbBlockNoRoomError"
           /\ SamePage(page, page_prev)

-----------------------------------------------------------------------------
(* One HeapTable driven by create, insert, update and del *)

\* Rows offered to insert: a short row, a row that leaves room for a short
\* row only, and a row that no page has room for
\* The shortest TEXT value whose row (4 bytes of a, 2 of length, the text) is
\* longer than the longest record a new page takes
TooLongTextLen == MaxRecordLen + 1 - 6

RowTextLens == {2, BigTextLen, TooLongTextLen}

TableRow(a, text) == [c \in {"a", "b"} |-> IF c = "a" THEN IntValue(a) ELSE TextValue(text)]

\* Partial rows offered to update
UpdateValues ==
    { ("a" :> IntValue(-7)),
      ("b" :> TextValue(Data(3, 20))),
      ("b" :> TextValue(Data(50, 21))) }

\* The handles of the rows inserted and not deleted
LiveHandles == DOMAIN tbl.rows

\* select() before the last operation
PrevSelect == HeapTable_select(tbl.prev_file, tbl.prev_device)

\* What the harness remembers of the operation just made
Ghost(op, err) ==
    [tbl EXCEPT !.op = op, !.err = err, !.prev_file = file, !.prev_device = device,
                !.db_calls = <<>>, !.row_keys = {}, !.data_len = 0]

TableInit ==
    /\ codec = Idle
    /\ page = Idle /\ page_prev = Idle /\ page_op = Idle /\ nops = 0
    /\ device = NoDevice
    /\ file = NewFile
    /\ tbl = [phase |-> "constructed", n |-> 0, op |-> "new", err |-> "ok",
              handle |-> <<0, 0>>, rows |-> EmptyRow, inserted |-> <<>>,
              only_inserts |-> TRUE, prev_file |-> NewFile, prev_device |-> NoDevice,
              db_calls |-> <<>>, new_values |-> EmptyRow, row_keys |-> {},
              data_len |-> 0,
              overflowed |-> FALSE, removed |-> TRUE, closed_select |-> <<>>]

\* table.create(), on a relation object that is constructed or open
TableCreate ==
    /\ tbl.phase \in {"constructed", "created"}
    /\ tbl.phase = "created" => tbl.n < MaxTableOps
    /\ \E c \in StackOutcomes : \E g \in Garbage :
          LET r == HeapTable_create(file, device, c, g)
          IN  /\ file' = r.file
              /\ device' = r.device
              /\ tbl' = [Ghost("create", r.err) EXCEPT
                           !.phase = "created",
                           !.n = IF tbl.phase = "created" THEN @ + 1 ELSE @,
                           !.only_inserts = @ /\ tbl.op = "new"]
    /\ UNCHANGED <<codec, page_vars>>

\* table.create_if_not_exists(), on a relation object that is constructed or
\* open
TableCreateIfNotExists ==
    /\ tbl.phase \in {"constructed", "created"}
    /\ tbl.phase = "created" => tbl.n < MaxTableOps
    /\ \E c \in StackOutcomes : \E g \in Garbage :
          LET r == HeapTable_create_if_not_exists(file, device, c, g)
          IN  /\ file' = r.file
              /\ device' = r.device
              /\ tbl' = [Ghost("create_if_not_exists", r.err) EXCEPT
                           !.phase = "created",
                           !.n = IF tbl.phase = "created" THEN @ + 1 ELSE @,
                           !.only_inserts = @ /\ tbl.op = "new"]
    /\ UNCHANGED <<codec, page_vars>>

\* table.insert(&row)
TableInsert ==
    /\ tbl.phase = "created"
    /\ tbl.n < MaxTableOps
    /\ \E len \in RowTextLens : \E c \in StackOutcomes : \E g \in Garbage :
          LET row == TableRow(Len(tbl.inserted) + 1, Data(len, Len(tbl.inserted) + 1))
              r == HeapTable_insert(file, device, row, c, g)
          IN  /\ file' = r.file
              /\ device' = r.device
              /\ tbl' = [Ghost("insert", r.err) EXCEPT
                           !.n = @ + 1,
                           !.handle = r.handle,
                           !.row_keys = DOMAIN row,
                           !.data_len = Len(marshal(TableSchema, row)),
                           !.overflowed =
                               @ \/ ~has_room(HeapFile_get(device, file.last),
                                              Len(marshal(TableSchema, row))),
                           !.rows = IF r.err = "ok" THEN (r.handle :> row) @@ @ ELSE @,
                           !.inserted = IF r.err = "ok"
                                        THEN Append(@, [handle |-> r.handle, row |-> row])
                                        ELSE @]
    /\ UNCHANGED <<codec, page_vars>>

\* Rows whose keys are not the columns of the schema: one without column b,
\* one with a key z that is no column
OddRows(a) ==
    { ("a" :> IntValue(a)),
      TableRow(a, Data(2, a)) @@ ("z" :> IntValue(5)) }

\* table.insert(&row) of a row whose keys are not the columns of the schema
TableInsertOdd ==
    /\ tbl.phase = "created"
    /\ tbl.n < MaxTableOps
    /\ \E row \in OddRows(Len(tbl.inserted) + 1) :
       \E c \in StackOutcomes : \E g \in Garbage :
          LET r == HeapTable_insert(file, device, row, c, g)
              full_row == validate(TableSchema, row).row
          IN  /\ file' = r.file
              /\ device' = r.device
              /\ tbl' = [Ghost("insert", r.err) EXCEPT
                           !.n = @ + 1,
                           !.handle = r.handle,
                           !.row_keys = DOMAIN row,
                           !.data_len = IF r.err = "DbRelationError" THEN 0
                                        ELSE Len(marshal(TableSchema, full_row)),
                           !.overflowed =
                               @ \/ (r.err # "DbRelationError"
                                       /\ ~has_room(HeapFile_get(device, file.last),
                                                    Len(marshal(TableSchema, full_row)))),
                           !.rows = IF r.err = "ok" THEN (r.handle :> full_row) @@ @ ELSE @,
                           !.inserted = IF r.err = "ok"
                                        THEN Append(@, [handle |-> r.handle, row |-> full_row])
                                        ELSE @]
    /\ UNCHANGED <<codec, page_vars>>

\* The row with new_values laid over the stored one has room in the page of
\* handle
FitsInPage(dev, handle, row) ==
    LET block == HeapFile_get(dev, handle[1])
        size == get_header(block, handle[2]).size
        new_size == Len(marshal(TableSchema, row))
    IN  new_size <= size \/ has_room(block, new_size - size)

\* table.update(handle, &new_values) on the handle of a stored row
TableUpdate ==
    /\ tbl.phase = "created"
    /\ tbl.n < MaxTableOps
    /\ \E h \in LiveHandles : \E new_values \in UpdateValues : \E g \in Garbage :
          LET r == HeapTable_update(device, h, new_values, g)
          IN  /\ device' = r.device
              /\ tbl' = [Ghost("update", r.err) EXCEPT
                           !.n = @ + 1, !.handle = h,
                           !.only_inserts = FALSE,
                           !.new_values = new_values,
                           !.rows = IF r.err = "ok"
                                    THEN [@ EXCEPT ![h] = new_values @@ @]
                                    ELSE @]
    /\ UNCHANGED <<codec, page_vars, file>>

\* table.del(handle) on the handle of a stored row
TableDel ==
    /\ tbl.phase = "created"
    /\ tbl.n < MaxTableOps
    /\ \E h \in LiveHandles : \E g \in Garbage :
          /\ device' = HeapTable_del(device, h, g)
          /\ tbl' = [Ghost("del", "ok") EXCEPT
                       !.n = @ + 1, !.handle = h,
                       !.only_inserts = FALSE,
                       !.rows = [k \in (DOMAIN @) \ {h} |-> @[k]]]
    /\ UNCHANGED <<codec, page_vars, file>>

\* table.open(), on a relation object that is constructed or open
TableOpen ==
    /\ tbl.phase \in {"constructed", "created", "opened"}
    /\ tbl.n < MaxTableOps
    /\ LET r == HeapTable_open(file, device)
       IN  /\ file' = r.file
           /\ device' = r.device
           /\ tbl' = [Ghost("open", r.err) EXCEPT
                        !.n = @ + 1,
                        !.db_calls = r.calls,
                        !.only_inserts = FALSE,
                        !.phase = IF @ = "constructed" /\ r.err = "ok"
                                  THEN "opened" ELSE @]
    /\ UNCHANGED <<codec, page_vars>>

\* table.close(), on a relation object that is open or closed
TableClose ==
    /\ tbl.phase \in {"created", "opened", "closed"}
    /\ tbl.n < MaxTableOps
    /\ LET r == HeapTable_close(file)
       IN  /\ file' = r.file
           /\ tbl' = [Ghost("close", "ok") EXCEPT
                        !.n = @ + 1,
                        !.db_calls = r.calls,
                        !.only_inserts = FALSE,
                        !.closed_select = IF tbl.phase = "closed" THEN @
                                          ELSE HeapTable_select(file, device),
                        !.phase = "closed"]
    /\ UNCHANGED <<codec, page_vars, device>>

\* What a call of a method of the Db does once the Db has been closed: the
\* handle may not be used again; the call throws or the process dies.
UseOfClosedDb == {"DbException", "SIGSEGV"}

\* The row operations of HeapTable
RowOps == {"insert", "update", "del", "select", "project"}

\* insert, update, del, select and project on a relation whose file was
\* closed: none looks at closed.  insert calls open(), whose db_open calls
\* Db::open; update, del and project call file.get, whose Db::get is their
\* first use of the Db; select calls file.get for each of block_ids(), which
\* are none when last = 0.
RowOpOnClosed(op, f, u) ==
    IF op = "select" /\ f.last = 0
    THEN [err |-> "ok", calls |-> <<>>]
    ELSE [err |-> u, calls |-> << IF op = "insert" THEN "Db::open" ELSE "Db::get" >>]

\* A row operation on a relation that was closed
TableRowOpOnClosed ==
    /\ tbl.phase = "closed"
    /\ tbl.n < MaxTableOps
    /\ \E op \in RowOps : \E u \in UseOfClosedDb :
          LET r == RowOpOnClosed(op, file, u)
          IN  tbl' = [Ghost(op, r.err) EXCEPT
                        !.n = @ + 1,
                        !.db_calls = r.calls,
                        !.phase = IF r.err = "SIGSEGV" THEN "crashed" ELSE @]
    /\ UNCHANGED <<codec, page_vars, file, device>>

\* HeapTable table(name, column_names, column_attributes) once the previous
\* object is closed: a new relation object over the same file
TableNew ==
    /\ tbl.phase = "closed"
    /\ file' = NewFile
    /\ tbl' = [Ghost("new", "ok") EXCEPT
                 !.phase = "constructed",
                 !.rows = EmptyRow, !.inserted = <<>>, !.overflowed = FALSE]
    /\ UNCHANGED <<codec, page_vars, device>>

\* table.drop(), on an open relation; the file system removes the file or
\* refuses to
TableDrop ==
    /\ tbl.phase \in {"created", "opened"}
    /\ tbl.n < MaxTableOps
    /\ \E removed \in BOOLEAN :
          LET r == HeapTable_drop(file, device, removed)
          IN  /\ file' = r.file
              /\ device' = r.device
              /\ tbl' = [Ghost("drop", r.err) EXCEPT
                           !.n = @ + 1, !.phase = "dropped",
                           !.only_inserts = FALSE,
                           !.removed = removed]
    /\ UNCHANGED <<codec, page_vars>>

TableNext ==
    \/ TableCreate
    \/ TableCreateIfNotExists
    \/ TableInsert
    \/ TableInsertOdd
    \/ TableUpdate
    \/ TableDel
    \/ TableOpen
    \/ TableClose
    \/ TableRowOpOnClosed
    \/ TableNew
    \/ TableDrop

Spec == TableInit /\ [][TableNext]_vars

\* project(handle) returns row, whatever lies past the ends of the buffers
ProjectsTo(handle, row) ==
    \A g \in Garbage :
        LET pr == HeapTable_project(device, handle, g)
        IN  pr.err = "ok" /\ pr.row = row

\* C2: on a freshly created relation, after inserting rows r1..rn, select()
\* returns exactly n handles and project(handle of the i-th insert) is r_i.
C2_InsertSelectProject ==
    (tbl.phase = "created" /\ tbl.only_inserts)
        => /\ Len(HeapTable_select(file, device)) = Len(tbl.inserted)
           /\ \A i \in 1..Len(tbl.inserted) :
                 ProjectsTo(tbl.inserted[i].handle, tbl.inserted[i].row)

\* C10: for every live handle h, project(h) returns the row most recently
\* written through h, after any inserts, updates and dels on other handles.
C10_HandleStable ==
    tbl.phase = "created"
        => \A h \in LiveHandles : ProjectsTo(h, tbl.rows[h])

\* The row project(handle) returned before the last operation, if it returned
\* one
PrevProjected ==
    { HeapTable_project(tbl.prev_device, tbl.handle, g) : g \in Garbage }

\* C11: after update(handle, new_values), on an open relation, whose resulting row still fits in
\* the page, project(handle) returns the previous row with exactly the columns
\* of new_values replaced and every other column unchanged.
C11_UpdateMerges ==
    (tbl.op = "update" /\ ~tbl.prev_file.closed)
        => \A pr \in PrevProjected :
              (/\ PrevProjected = {pr}
               /\ pr.err = "ok"
               /\ FitsInPage(tbl.prev_device, tbl.handle, tbl.new_values @@ pr.row))
                  => ProjectsTo(tbl.handle, tbl.new_values @@ pr.row)

\* The handles of a sequence of handles
HandleSet(handles) == { handles[i] : i \in 1..Len(handles) }

HandleLess(h1, h2) == h1[1] < h2[1] \/ (h1[1] = h2[1] /\ h1[2] < h2[2])

get_last_block_id(f) == f.last

\* C14: after create, some inserts and close, a new relation object of the
\* same name and schema that calls open() sees the stored blocks:
\* get_last_block_id() is the number of blocks on the device, block_ids() is
\* 1..last and select() returns the handles it returned before the close.
C14_ReopenSeesBlocks ==
    (tbl.op = "open" /\ tbl.err = "ok" /\ tbl.phase = "opened")
        => /\ get_last_block_id(file) = Len(device.blocks)
           /\ block_ids(file) = [i \in 1..Len(device.blocks) |-> i]
           /\ HeapTable_select(file, device) = tbl.closed_select

\* The block is a formatted page without records
EmptyPage(block) ==
    LET p == LoadPage(block)
    IN  p.num_records = 0 /\ p.end_free = BLOCK_SZ - 1 /\ ids(p) = <<>>

\* C15: create_if_not_exists() creates the relation with one empty page when
\* its storage is absent, and when the storage exists it opens it and leaves
\* every stored page and row as it was; calling it twice leaves the state that
\* calling it once leaves.
C15_CreateIfNotExists ==
    tbl.op = "create_if_not_exists"
        => /\ tbl.err = "ok"
           /\ ~file.closed
           /\ IF tbl.prev_device.exists
              THEN device.blocks = tbl.prev_device.blocks
              ELSE Len(device.blocks) = 1 /\ EmptyPage(device.blocks[1])

\* C16: create() on a relation whose backing storage already exists fails with
\* a storage error and does not overwrite or modify any existing block.
C16_CreateExclusive ==
    (tbl.op = "create" /\ tbl.prev_device.exists)
        => /\ tbl.err # "ok"
           /\ \A i \in 1..Len(tbl.prev_device.blocks) :
                 /\ i <= Len(device.blocks)
                 /\ device.blocks[i] = tbl.prev_device.blocks[i]

C19_OpenCloseNoOps ==
    ((tbl.op = "open" /\ ~tbl.prev_file.closed)
        \/ (tbl.op = "close" /\ tbl.prev_file.closed))
        => /\ file = tbl.prev_file
           /\ device = tbl.prev_device
           /\ tbl.db_calls = <<>>

\* C20: when the device cannot remove the backing storage, drop() on the
\* relation reports the failure to its caller as an error; it does not
\* return normally.
C20_DropReportsFailure ==
    (tbl.op = "drop" /\ ~tbl.removed) => tbl.err # "ok"

\* C21: after close(), and until open() is called again, insert, update, del,
\* select and project each fail with a DbRelationError and make no call to
\* the device.
C21_ClosedDisablesRowOps ==
    (tbl.op \in RowOps /\ tbl.prev_file.closed)
        => /\ tbl.err = "DbRelationError"
           /\ tbl.db_calls = <<>>

\* C22: if update(handle, new_values) on an open relation fails, with
\* DbBlockNoRoomError or a validation error, the error reaches the caller,
\* nothing is written to the device, no page is allocated, and project(handle)
\* returns the row it returned before the update.
C22_FailedUpdateWritesNothing ==
    (tbl.op = "update" /\ ~tbl.prev_file.closed /\ tbl.err # "ok")
        => /\ tbl.err \in {"DbBlockNoRoomError", "DbRelationError"}
           /\ device = tbl.prev_device
           /\ file = tbl.prev_file
           /\ \A g \in Garbage :
                 HeapTable_project(device, tbl.handle, g) \in PrevProjected

\* An update of a short row in a page without room for its growth has failed
C22_Witness ==
    /\ tbl.op = "update"
    /\ tbl.err = "DbBlockNoRoomError"
    /\ tbl.handle \in HandleSet(HeapTable_select(file, device))

\* The names of the columns of the schema
SchemaColumns == { TableSchema[i].name : i \in 1..Len(TableSchema) }

\* C23: insert of a row that lacks a schema column fails with a
\* DbRelationError before any page is modified or written; keys of the row
\* that are no schema columns are ignored, and the stored row has exactly the
\* columns of the schema.
C23_InsertValidates ==
    (tbl.op = "insert" /\ ~tbl.prev_file.closed)
        => /\ ~(SchemaColumns \subseteq tbl.row_keys)
                => /\ tbl.err = "DbRelationError"
                   /\ device = tbl.prev_device
                   /\ file = tbl.prev_file
           /\ (SchemaColumns \subseteq tbl.row_keys)
                => /\ tbl.err # "DbRelationError"
                   /\ tbl.data_len <= MaxRecordLen => tbl.err = "ok"
                   /\ tbl.err = "ok" =>
                         \A g \in Garbage :
                            LET pr == HeapTable_project(device, tbl.handle, g)
                            IN  pr.err = "ok" /\ DOMAIN pr.row = SchemaColumns

\* An insert without column b has failed on a relation that holds a row
C23_Witness ==
    /\ tbl.op = "insert"
    /\ tbl.row_keys = {"a"}
    /\ tbl.err = "DbRelationError"
    /\ tbl.prev_file = file
    /\ HeapTable_select(file, device) = << <<1, 1>> >>
    /\ ProjectsTo(<<1, 1>>, TableRow(1, Data(2, 1)))

\* Lists of column names given to project
ColumnNameLists == { <<"a">>, <<"b">>, <<"b", "a">>, <<"a", "z">> }

\* The names in a list of column names
NameSet(column_names) == { column_names[i] : i \in 1..Len(column_names) }

\* C24: project(handle, column_names) returns a row whose keys are exactly
\* the names of column_names that are schema columns, each with its stored
\* value; a column that was not asked for is not in the result.
C24_ProjectColumns ==
    tbl.phase = "created"
        => \A h \in HandleSet(HeapTable_select(file, device)) :
           \A column_names \in ColumnNameLists : \A g \in Garbage :
              LET full == HeapTable_project(device, h, g)
                  pr == HeapTable_project_columns(device, h, column_names, g)
              IN  /\ pr.err = "ok"
                  /\ DOMAIN pr.row = NameSet(column_names) \cap SchemaColumns
                  /\ \A c \in DOMAIN pr.row : pr.row[c] = full.row[c]

\* The where arguments of select: nullptr, no predicate, one predicate
Wheres ==
    { [null |-> TRUE, dict |-> EmptyRow],
      [null |-> FALSE, dict |-> EmptyRow],
      [null |-> FALSE, dict |-> ("a" :> IntValue(1))] }

C26_IdsCountUp ==
    (page_op.name = "add" /\ page_op.err = "ok")
        => /\ page_op.id = page_op.adds
           /\ page_op.id \notin 1..page_prev.num_records

\* The third successful add, on a page where an earlier record was deleted
C26_Witness ==
    /\ page_op.name = "add" /\ page_op.err = "ok"
    /\ page_op.id = 3
    /\ Live(page_prev) # 1..2

\* The number of get_new() calls the last operation made on the file
GetNewCalls ==
    CASE tbl.op \in {"create", "create_if_not_exists"} -> 1
      [] tbl.op = "insert" /\ tbl.data_len > 0 /\ ~tbl.prev_file.closed ->
            IF has_room(HeapFile_get(tbl.prev_device, tbl.prev_file.last),
                        tbl.data_len)
            THEN 0 ELSE 1
      [] OTHER -> 0

\* C27: the last block id goes up by exactly 1 on every get_new() and is
\* changed by no other operation on the file (update, del, an insert that
\* fits, open, close); block_ids() is the list 1..last, so the number of
\* blocks never goes down, even after every row has been deleted.
C27_LastCountsGetNew ==
    tbl.op # "new"
        => /\ get_last_block_id(file) = get_last_block_id(tbl.prev_file) + GetNewCalls
           /\ block_ids(file) = [i \in 1..get_last_block_id(file) |-> i]
           /\ Len(block_ids(file)) >= Len(block_ids(tbl.prev_file))

\* The only row of a relation of two blocks has been deleted
C27_Witness ==
    /\ tbl.op = "del" /\ ~tbl.prev_file.closed
    /\ PrevSelect # <<>>
    /\ HeapTable_select(file, device) = <<>>
    /\ block_ids(file) = <<1, 2>>

\* C28: an insert allocates at most one new page, and only after add on the
\* last page raised DbBlockNoRoomError; the BlockID of the handle returned is
\* the page that holds the record and is get_last_block_id() after the
\* insert, and project(handle) returns the inserted row.
C28_InsertAppendsOnce ==
    (tbl.op = "insert" /\ tbl.err = "ok" /\ ~tbl.prev_file.closed)
        => /\ get_last_block_id(file) - get_last_block_id(tbl.prev_file) = GetNewCalls
           /\ tbl.handle[1] = get_last_block_id(file)
           /\ tbl.handle \in HandleSet(HeapTable_select(file, device))
           /\ ProjectsTo(tbl.handle, tbl.rows[tbl.handle])

-----------------------------------------------------------------------------
(* SlottedPage: ids(), shrinking put, offsets, record ranges, tombstones *)

\* C31: ids() returns, in ascending order, exactly the ids in 1..num_records
\* whose slot header has a nonzero loc; it never contains 0, and it contains
\* num_records whenever the most recently added record is live.
C31_IdsAscendingLive ==
    LET s == ids(page) IN
    /\ \A k \in 1..(Len(s) - 1) : s[k] < s[k + 1]
    /\ { s[k] : k \in 1..Len(s) } =
          { id \in 1..page.num_records : get_n(page, 4 * id + 2) # 0 }
    /\ \A k \in 1..Len(s) : s[k] # 0
    /\ (page.num_records > 0 /\ get_n(page, 4 * page.num_records + 2) # 0)
          => (Len(s) > 0 /\ s[Len(s)] = page.num_records)

\* C31 witness: a record was added to a page that holds a tombstone below it,
\* and ids() lists the new record last.
C31_Witness ==
    /\ page_op.name = "add" /\ page_op.err = "ok"
    /\ page.num_records >= 3
    /\ get_n(page, 4 * 2 + 2) = 0
    /\ ids(page)[Len(ids(page))] = page.num_records
    /\ Len(ids(page)) < page.num_records

\* C32: a successful put(id, data) whose data is no longer than the record
\* leaves get() of every other live record unchanged and raises end_free by
\* exactly the old length minus the new length.
C32_ShrinkFreesSpace ==
    (page_op.name = "put" /\ page_op.err = "ok"
        /\ Len(page_op.data) <= OldSize(page_op.id))
        => /\ SiblingsUnchanged(page_op.id)
           /\ page.end_free = page_prev.end_free + OldSize(page_op.id) - Len(page_op.data)

\* C34: for every add, get, put and del applied to a live id of a reachable
\* page, every byte offset read or written (slot headers, record bytes, the
\* source and the destination of the move in slide) lies within
\* [0, BLOCK_SZ).
C34_OffsetsInBlock ==
    /\ (page_op.name = "add"
          \/ (page_op.name \in {"put", "del"} /\ page_op.id \in Live(page_prev)))
          => ~page.oob
    /\ \A id \in Live(page) :
          InBlock(get_header(page, id).loc, get_header(page, id).size)

\* The sum of the sizes in the slot headers of the live records
LiveSizes(p) ==
    LET RECURSIVE sum(_)
        sum(id) == IF id = 0 THEN 0
                   ELSE sum(id - 1) + (IF get_header(p, id).loc # 0
                                       THEN get_header(p, id).size ELSE 0)
    IN  sum(p.num_records)

\* C35: in every page state reached by add, put and del on live ids, the byte
\* ranges [loc, loc+size) of the live records are pairwise disjoint, lie
\* above end_free and below BLOCK_SZ, and end_free is BLOCK_SZ - 1 minus the
\* sum of the sizes of the live records.
C35_RecordsTileTheTop ==
    LET h(id) == get_header(page, id) IN
    /\ \A i, j \in Live(page) :
          i # j => (h(i).loc + h(i).size <= h(j).loc \/ h(j).loc + h(j).size <= h(i).loc)
    /\ \A i \in Live(page) :
          h(i).loc > page.end_free /\ h(i).loc + h(i).size <= BLOCK_SZ
    /\ page.end_free = BLOCK_SZ - 1 - LiveSizes(page)

-----------------------------------------------------------------------------
(* HeapTable: blocks written, deleted handles, rows too long, the last block *)

\* C33: each insert, update or del on an open relation writes only one block
\* of the device: the handle's block for update and del, the last block for
\* insert (the new block when the insert overflowed); every other block keeps
\* its bytes.
C33_WritesOneBlock ==
    (tbl.op \in {"insert", "update", "del"} /\ ~tbl.prev_file.closed)
        => LET target == IF tbl.op = "insert" THEN file.last ELSE tbl.handle[1]
           IN  /\ device.exists = tbl.prev_device.exists
               /\ Len(device.blocks) >= Len(tbl.prev_device.blocks)
               /\ \A b \in 1..Len(device.blocks) :
                     b # target => /\ b <= Len(tbl.prev_device.blocks)
                                   /\ device.blocks[b] = tbl.prev_device.blocks[b]

\* C33 witness: an insert that overflowed wrote the new block 2 and left
\* block 1, which holds a row, as it was.
C33_Witness ==
    /\ tbl.op = "insert" /\ tbl.err = "ok" /\ ~tbl.prev_file.closed
    /\ tbl.handle = <<2, 1>>
    /\ Len(tbl.prev_device.blocks) = 1 /\ Len(device.blocks) = 2
    /\ device.blocks[1] = tbl.prev_device.blocks[1]
    /\ ids(LoadPage(device.blocks[1])) = <<1>>

\* The exceptions of the storage engine: DbBlockNoRoomError, DbRelationError,
\* and the DbException of Berkeley DB
Exceptions == {"DbBlockNoRoomError", "DbRelationError", "DbException"}

\* The handles of the rows that were inserted and then deleted
DeletedHandles ==
    { tbl.inserted[i].handle : i \in 1..Len(tbl.inserted) } \ LiveHandles

\* C37: project(handle) or update(handle, values) on a handle whose row has
\* been deleted ends in an error without decoding absent record data: no row
\* is returned, the handle does not reappear in select(), and the device is
\* unchanged.
C37_DeletedHandleFails ==
    (tbl.phase = "created" /\ ~file.closed)
        => \A h \in DeletedHandles : \A g \in Garbage :
              /\ HeapTable_project(device, h, g).err \in Exceptions
              /\ HeapTable_project(device, h, g).row = EmptyRow
              /\ \A new_values \in UpdateValues :
                    LET up == HeapTable_update(device, h, new_values, g)
                    IN  /\ up.err \in Exceptions
                        /\ up.device = device
                        /\ h \notin HandleSet(HeapTable_select(file, up.device))

\* C38: when the marshaled row is longer than the longest record an empty
\* page takes, insert raises DbBlockNoRoomError from the second add and does
\* not retry; by then exactly one new empty block has been appended and
\* written (last has grown by 1), and no block that existed before is
\* modified.
C38_TooLongRowFails ==
    (tbl.op = "insert" /\ ~tbl.prev_file.closed /\ tbl.data_len > MaxRecordLen)
        => /\ tbl.err = "DbBlockNoRoomError"
           /\ file.last = tbl.prev_file.last + 1
           /\ Len(device.blocks) = Len(tbl.prev_device.blocks) + 1
           /\ device.blocks[Len(device.blocks)] = NewPage.block
           /\ \A b \in 1..Len(tbl.prev_device.blocks) :
                 device.blocks[b] = tbl.prev_device.blocks[b]

\* C39: insert only ever adds a record to the block whose id is
\* get_last_block_id(): when the last block lacks room it allocates a new
\* block, even when an earlier block (emptied by del) has room, and no
\* earlier block is touched.
C39_InsertUsesLastBlock ==
    (tbl.phase = "created" /\ ~file.closed)
        => \A len \in RowTextLens : \A c \in StackOutcomes : \A g \in Garbage :
              LET row == TableRow(7, Data(len, 7))
                  size == Len(marshal(TableSchema, row))
                  r == HeapTable_insert(file, device, row, c, g)
                  room == has_room(HeapFile_get(device, get_last_block_id(file)), size)
              IN  /\ get_last_block_id(r.file) =
                        get_last_block_id(file) + (IF room THEN 0 ELSE 1)
                  /\ r.err = "ok" => r.handle[1] = get_last_block_id(r.file)
                  /\ r.err = "ok" <=> size <= MaxRecordLen
                  /\ \A b \in 1..Len(device.blocks) :
                        b # get_last_block_id(r.file)
                           => r.device.blocks[b] = device.blocks[b]

\* C39 witness: the row of block 1 has been deleted, so block 1 has room for
\* a long row and block 2, the last block, has none; insert of the long row
\* returns a handle in a new block 3.
C39_Witness ==
    /\ tbl.phase = "created" /\ ~file.closed
    /\ tbl.op = "del" /\ tbl.handle[1] = 1
    /\ get_last_block_id(file) = 2
    /\ LET row == TableRow(7, Data(BigTextLen, 7))
           size == Len(marshal(TableSchema, row))
       IN  /\ has_room(HeapFile_get(device, 1), size)
           /\ ~has_room(HeapFile_get(device, 2), size)
           /\ \A c \in StackOutcomes : \A g \in Garbage :
                 HeapTable_insert(file, device, row, c, g).handle = <<3, 1>>

====
